---- MODULE Spec2Model ----
(***************************************************************************)
(* Model of the GitHub pull request action of updatecli                    *)
(* (package github: PullRequest.CleanAction / PullRequest.CreateAction).   *)
(* Every remote call (GraphQL query or mutation) of a run is one step, so  *)
(* that the order of the calls, the failure paths and the interleaving of  *)
(* two engines can be observed.  The platform (the GitHub API) is part of  *)
(* the state: the pull requests, the label catalog, the branch status and  *)
(* the repository settings.                                                *)
(***************************************************************************)
EXTENDS Integers, Sequences, FiniteSets, TLC

VARIABLES
    spec,              \* ActionSpec of the engine(s) (PullRequest.spec)
    constructErr,      \* error returned by NewAction
    p,                 \* [Procs -> PullRequest] : Report, Title, remotePullRequest, repository
    pc,                \* [Procs -> position in CleanAction / CreateAction]
    run,               \* [Procs -> arguments of the current run]
    err,               \* [Procs -> error returned by the last finished run]
    loc,               \* [Procs -> locals of updatePullRequest / GetPullRequestLabelsInformation]
    calls,             \* [Procs -> remote calls issued by the current run, in order]
    prev,              \* [Procs -> the run before the current one: arguments, error, calls, platform left]
    budget,            \* number of runs that may still start
    procs,             \* the engines that run
    prs,               \* platform: pull requests of the branch pair, oldest first
    status,            \* platform: Repository.Status of working vs target branch
    catalog,           \* platform: labels of the repository
    autoMergeAllowed   \* platform: Repository.AutoMergeAllowed, per repository

vars == <<spec, constructErr, p, pc, run, err, loc, calls, prev, budget, procs,
          prs, status, catalog, autoMergeAllowed>>

engineVars == <<spec, constructErr, procs>>
platformVars == <<prs, status, catalog, autoMergeAllowed>>

----------------------------------------------------------------------------
(* Bounds of the model *)

MaxRuns == 2          \* runs of CleanAction / CreateAction in one behaviour
MaxAttached == 11     \* labels attached to a pull request in the pagination study
NumCatalog == 3       \* labels in the repository catalog of the orchestration study

Procs == {1, 2}

----------------------------------------------------------------------------
(* Strings: a merge method is a sequence of characters, so that            *)
(* strings.ToUpper and strings.EqualFold are computed, not assumed.        *)

ToUpperChar(c) ==
    CASE c = "s" -> "S" [] c = "q" -> "Q" [] c = "u" -> "U" [] c = "a" -> "A"
      [] c = "h" -> "H" [] c = "m" -> "M" [] c = "e" -> "E" [] c = "r" -> "R"
      [] c = "g" -> "G" [] c = "b" -> "B" [] c = "f" -> "F" [] c = "t" -> "T"
      [] OTHER -> c

ToLowerChar(c) ==
    CASE c = "S" -> "s" [] c = "Q" -> "q" [] c = "U" -> "u" [] c = "A" -> "a"
      [] c = "H" -> "h" [] c = "M" -> "m" [] c = "E" -> "e" [] c = "R" -> "r"
      [] c = "G" -> "g" [] c = "B" -> "b" [] c = "F" -> "f" [] c = "T" -> "t"
      [] OTHER -> c

ToUpper(s) == [i \in 1..Len(s) |-> ToUpperChar(s[i])]

\* strings.EqualFold: equality under simple case folding, character by character
EqualFold(s, t) ==
    /\ Len(s) = Len(t)
    /\ \A i \in 1..Len(s) : ToLowerChar(s[i]) = ToLowerChar(t[i])

SQUASH == <<"S", "Q", "U", "A", "S", "H">>
MERGE == <<"M", "E", "R", "G", "E">>
REBASE == <<"R", "E", "B", "A", "S", "E">>
squash == <<"s", "q", "u", "a", "s", "h">>
rebase == <<"r", "e", "b", "a", "s", "e">>

\* the merge methods a configuration file may carry
MergeMethods ==
    { <<>>, squash, <<"S", "q", "u", "a", "s", "h">>, <<"m", "e", "r", "g", "e">>,
      rebase, REBASE, <<"f", "a", "s", "t">>, <<"m", "e", "r", "g", "e", "s">> }

ErrNil == "nil"
ErrAutomergeNotAllowOnRepository == "automerge is not allowed on repository"
ErrBadMergeMethod == "wrong merge method defined"
ErrPullRequestIsInCleanStatus == "Pull request Pull request is in clean status"
ErrTransport == "transport error"
ErrNotFound == "Could not resolve to a PullRequest"

\* isMergeMethodValid that compares without strings.ToUpper
isMergeMethodValid_CaseSensitive(method) ==
    IF \/ Len(method) = 0
       \/ method = SQUASH
       \/ method = MERGE
       \/ method = REBASE
    THEN ErrNil
    ELSE ErrBadMergeMethod

\* isMergeMethodValid
isMergeMethodValid(method) ==
    IF \/ Len(method) = 0
       \/ ToUpper(method) = SQUASH
       \/ ToUpper(method) = MERGE
       \/ ToUpper(method) = REBASE
    THEN ErrNil
    ELSE ErrBadMergeMethod

\* ActionSpec.Validate
Validate(s) == isMergeMethodValid(s.MergeMethod)

----------------------------------------------------------------------------
(* Data *)

\* zero value of PullRequestApi
EmptyBody == [desc |-> "", report |-> {}]
ZeroPullRequestApi ==
    [ID |-> "", Number |-> 0, ChangedFiles |-> 0, Body |-> EmptyBody,
     Title |-> "", State |-> ""]

\* the repository of gh.Spec (Owner/Repository) and its parent
RepoSelf == [owner |-> "me", name |-> "repo"]
RepoParent == [owner |-> "upstream", name |-> "repo"]
Repos == {RepoSelf, RepoParent}
RepoID(r) == IF r = RepoSelf THEN "R_self" ELSE "R_parent"

NilRepository ==
    [ID |-> "", Owner |-> "", Name |-> "", ParentID |-> "", ParentOwner |-> "",
     ParentName |-> "", Status |-> ""]

\* a label of the repository: repositoryLabelApi
Label(i) == [ID |-> i, Name |-> "l" \o ToString(i)]

\* the opaque ID the platform gives to its n-th pull request
PullRequestID(n) == "PR_" \o ToString(n)

\* the view of a platform pull request that a query or mutation returns
AsPullRequestApi(pr) ==
    [ID |-> pr.ID, Number |-> pr.Number, ChangedFiles |-> pr.ChangedFiles,
     Body |-> pr.Body, Title |-> pr.Title, State |-> pr.State]

SeqToSet(s) == {s[i] : i \in 1..Len(s)}

\* the elements of s, first occurrences only, in order
RECURSIVE Dedup(_)
Dedup(s) ==
    IF s = <<>> THEN <<>>
    ELSE LET front == Dedup(SubSeq(s, 1, Len(s) - 1))
             last == s[Len(s)]
         IN IF last \in SeqToSet(front) THEN front ELSE Append(front, last)

----------------------------------------------------------------------------
(* Collaborators whose code is outside this package *)

\* reports.Action.ToActionsString: the report text, a set of report sections
ToActionsString(report) == {report.ID}

\* reports.MergeFromString: the sections of the existing body and the new ones
MergeFromString(body, report) == body.report \union report

\* utils.GeneratePullRequestBody: description followed by the report text
\* (the rendering of the fixed template is taken to succeed)
GeneratePullRequestBody(description, report) ==
    [desc |-> description, report |-> report]

\* mergeLabels: the labels of a, then the labels of b that a does not hold
mergeLabels(a, b) == Dedup(a \o b)

----------------------------------------------------------------------------
(* updatePullRequest: the catalog labels whose name is a desired name,     *)
(* desired names in the outer loop, catalog labels in the inner loop       *)

\* MatchOne without the comparison of the names
MatchOne_Unfiltered(l, repositoryLabels) == repositoryLabels

RECURSIVE MatchOne(_, _)
MatchOne(l, repositoryLabels) ==
    IF repositoryLabels = <<>> THEN <<>>
    ELSE (IF l = Head(repositoryLabels).Name THEN <<Head(repositoryLabels)>> ELSE <<>>)
         \o MatchOne(l, Tail(repositoryLabels))

RECURSIVE MatchingLabels(_, _)
MatchingLabels(labels, repositoryLabels) ==
    IF labels = <<>> THEN <<>>
    ELSE MatchOne(Head(labels), repositoryLabels)
         \o MatchingLabels(Tail(labels), repositoryLabels)

LabelIDsOf(labels) == [i \in 1..Len(labels) |-> labels[i].ID]

\* UpdatePullRequestInput that always carries the label IDs
UpdatePullRequestInput_AlwaysLabels(id, title, bodyPR, labels, labelsID) ==
    [PullRequestID |-> id, Title |-> title, Body |-> bodyPR,
     hasLabelIDs |-> TRUE, LabelIDs |-> labelsID]

\* the input of the updatePullRequest mutation
UpdatePullRequestInput(id, title, bodyPR, labels, labelsID) ==
    [PullRequestID |-> id, Title |-> title, Body |-> bodyPR,
     hasLabelIDs |-> Len(labels) # 0,
     LabelIDs |-> IF Len(labels) # 0 THEN labelsID ELSE <<>>]

\* EnablePullRequestAutoMergeInput with the bare title for squash as well
EnablePullRequestAutoMergeInput_BareTitle(s, title, remotePullRequest) ==
    [PullRequestID |-> remotePullRequest.ID,
     hasMergeMethod |-> Len(s.MergeMethod) > 0,
     MergeMethod |-> IF Len(s.MergeMethod) > 0 THEN ToUpper(s.MergeMethod) ELSE <<>>,
     hasCommitHeadline |->
        s.UseTitleForAutoMerge
        /\ (EqualFold(s.MergeMethod, squash) \/ EqualFold(s.MergeMethod, rebase)),
     CommitHeadline |->
        IF s.UseTitleForAutoMerge
           /\ (EqualFold(s.MergeMethod, squash) \/ EqualFold(s.MergeMethod, rebase))
        THEN title
        ELSE ""]

\* the input of the enablePullRequestAutoMerge mutation
EnablePullRequestAutoMergeInput(s, title, remotePullRequest) ==
    [PullRequestID |-> remotePullRequest.ID,
     hasMergeMethod |-> Len(s.MergeMethod) > 0,
     MergeMethod |-> IF Len(s.MergeMethod) > 0 THEN ToUpper(s.MergeMethod) ELSE <<>>,
     hasCommitHeadline |->
        s.UseTitleForAutoMerge
        /\ (EqualFold(s.MergeMethod, squash) \/ EqualFold(s.MergeMethod, rebase)),
     CommitHeadline |->
        IF s.UseTitleForAutoMerge /\ EqualFold(s.MergeMethod, squash)
        THEN title \o " (#" \o ToString(remotePullRequest.Number) \o ")"
        ELSE IF s.UseTitleForAutoMerge /\ EqualFold(s.MergeMethod, rebase)
        THEN title
        ELSE ""]

\* the input of the createPullRequest mutation
CreatePullRequestInput(s, repository, title, bodyPR) ==
    [RepositoryID |-> IF s.Parent THEN repository.ParentID ELSE repository.ID,
     hasHeadRepositoryID |-> s.Parent,
     HeadRepositoryID |-> IF s.Parent THEN repository.ID ELSE "",
     Title |-> title, Body |-> bodyPR,
     MaintainerCanModify |-> ~s.MaintainerCannotModify, Draft |-> s.Draft]

\* LookupRepo that addresses the configured repository whatever spec.Parent is
LookupRepo_Own(s, repository) ==
    [owner |-> repository.Owner, name |-> repository.Name]

\* the repository a lookup of the engine addresses
LookupRepo(s, repository) ==
    IF s.Parent
    THEN [owner |-> repository.ParentOwner, name |-> repository.ParentName]
    ELSE [owner |-> repository.Owner, name |-> repository.Name]

isAhead(repository) == repository.Status = "AHEAD"

----------------------------------------------------------------------------
(* The platform.  A query or mutation that names a pull request which     *)
(* does not exist (number 0, empty ID) is answered with an error, which    *)
(* the client returns to the engine.                                       *)

PageSize == 5    \* labels(last: 5, before: $before)
NilCursor == 0   \* (*githubv4.String)(nil); a cursor is the position of an edge

\* labels(last: 5, before: $before) of a pull request whose labels are
\* attached in the order of the sequence labels
LabelsPage(labels, before) ==
    LET end == IF before = NilCursor THEN Len(labels) ELSE before - 1
        start == IF end - PageSize + 1 > 1 THEN end - PageSize + 1 ELSE 1
    IN [Edges |-> [i \in 1..(end - start + 1) |-> Label(labels[start + i - 1])],
        HasPreviousPage |-> end >= 1 /\ start > 1,
        StartCursor |-> IF end >= 1 THEN start ELSE NilCursor]

\* pullRequests(baseRefName, headRefName, last: 1, states: [OPEN])
OpenPullRequests(pulls, repo) ==
    {i \in 1..Len(pulls) : pulls[i].Repo = repo /\ pulls[i].State = "OPEN"}

\* Nodes that answers the oldest open pull request
Nodes_First(pulls, repo) ==
    IF OpenPullRequests(pulls, repo) = {} THEN <<>>
    ELSE LET first == CHOOSE i \in OpenPullRequests(pulls, repo) :
                         \A j \in OpenPullRequests(pulls, repo) : i <= j
         IN <<AsPullRequestApi(pulls[first])>>

Nodes(pulls, repo) ==
    IF OpenPullRequests(pulls, repo) = {} THEN <<>>
    ELSE LET last == CHOOSE i \in OpenPullRequests(pulls, repo) :
                        \A j \in OpenPullRequests(pulls, repo) : j <= i
         IN <<AsPullRequestApi(pulls[last])>>

\* the pull requests a request names, by ID or by repository and number
ByID(pulls, id) == {i \in 1..Len(pulls) : pulls[i].ID = id}
ByNumber(pulls, repo, number) ==
    {i \in 1..Len(pulls) : pulls[i].Repo = repo /\ pulls[i].Number = number}

RepoByID(id) == IF id = RepoID(RepoSelf) THEN RepoSelf ELSE RepoParent

NoAutoMerge == [enabled |-> FALSE]

\* the pull request the platform makes of a createPullRequest input
NextNumber(pulls) == IF pulls = <<>> THEN 1 ELSE pulls[Len(pulls)].Number + 1

NewPullRequest(pulls, input, changedFiles) ==
    [ID |-> PullRequestID(NextNumber(pulls)), Number |-> NextNumber(pulls),
     State |-> "OPEN", Title |-> input.Title, Body |-> input.Body,
     Labels |-> <<>>, ChangedFiles |-> changedFiles,
     Repo |-> RepoByID(input.RepositoryID), AutoMerge |-> NoAutoMerge,
     Comments |-> 0]

----------------------------------------------------------------------------
(* The engine: state after NewAction *)

NewPullRequest_p ==
    [Report |-> {}, Title |-> "", remotePullRequest |-> ZeroPullRequestApi,
     repository |-> NilRepository]

NoRun == [kind |-> "none", resetDescription |-> FALSE, report |-> [ID |-> "", Title |-> ""]]

NoLocals ==
    [repositoryLabels |-> <<>>, matchingLabels |-> <<>>, pullRequestLabels |-> <<>>,
     before |-> NilCursor]

Reports == { [ID |-> "r1", Title |-> "Bump x to 2.0"] }

Idle(self) == pc[self] \in {"idle", "done"}

\* what a finished run leaves for the study of the run that follows it
Issued(cs) == {cs[i].op : i \in {j \in 1..Len(cs) : cs[j].ok}}
Summary(self) ==
    [run |-> run[self], err |-> err[self], issued |-> Issued(calls[self]), prs |-> prs]
NoSummary == [run |-> NoRun, err |-> "none", issued |-> {}, prs |-> <<>>]

\* the error a remote call returns: the request did not get through (~ok),
\* or it names a pull request that does not exist (found is empty)
Answer(ok, found) ==
    IF ~ok THEN ErrTransport ELSE IF found = {} THEN ErrNotFound ELSE ErrNil

\* the set found of a request that names no pull request
NoPullRequestNamed == {0}

\* the remote call c joins the calls of the run
Issue(self, c) == calls' = [calls EXCEPT ![self] = Append(@, c)]

\* the run returns e to its caller
Return(self, e) ==
    /\ pc' = [pc EXCEPT ![self] = "done"]
    /\ err' = [err EXCEPT ![self] = e]
    /\ UNCHANGED prev

Goto(self, label) ==
    /\ pc' = [pc EXCEPT ![self] = label]
    /\ UNCHANGED <<err, prev>>

\* NewAction: a new engine for the same configuration
NewAction(self) ==
    /\ pc[self] = "done"
    /\ p[self] # NewPullRequest_p
    /\ p' = [p EXCEPT ![self] = NewPullRequest_p]
    /\ pc' = [pc EXCEPT ![self] = "idle"]
    /\ UNCHANGED <<engineVars, platformVars, run, err, loc, calls, prev, budget>>

\* CleanAction up to its first remote call
CleanAction(self) ==
    /\ self \in procs /\ Idle(self) /\ constructErr = ErrNil /\ budget > 0
    /\ budget' = budget - 1
    /\ prev' = [prev EXCEPT ![self] = Summary(self)]
    /\ run' = [run EXCEPT ![self] =
                 [kind |-> "clean", resetDescription |-> FALSE,
                  report |-> [ID |-> "", Title |-> ""]]]
    /\ calls' = [calls EXCEPT ![self] = <<>>]
    /\ loc' = [loc EXCEPT ![self] = NoLocals]
    /\ err' = [err EXCEPT ![self] = "running"]
    /\ pc' = [pc EXCEPT ![self] = "queryRepository"]
    /\ UNCHANGED <<engineVars, platformVars, p>>

\* CreateAction up to its first remote call
CreateAction(self) ==
    /\ self \in procs /\ Idle(self) /\ constructErr = ErrNil /\ budget > 0
    /\ \E report \in Reports, resetDescription \in BOOLEAN :
         /\ p' = [p EXCEPT ![self].Report = ToActionsString(report),
                           ![self].Title = IF spec.Title # "" THEN spec.Title
                                           ELSE report.Title]
         /\ run' = [run EXCEPT ![self] =
                      [kind |-> "create", resetDescription |-> resetDescription,
                       report |-> report]]
    /\ budget' = budget - 1
    /\ prev' = [prev EXCEPT ![self] = Summary(self)]
    /\ calls' = [calls EXCEPT ![self] = <<>>]
    /\ loc' = [loc EXCEPT ![self] = NoLocals]
    /\ err' = [err EXCEPT ![self] = "running"]
    /\ pc' = [pc EXCEPT ![self] = "queryRepository"]
    /\ UNCHANGED <<engineVars, platformVars>>

\* gh.queryRepository: identity of the repository, of its parent, and Status
queryRepository(self) ==
    /\ pc[self] = "queryRepository"
    /\ \E ok \in BOOLEAN :
         /\ Issue(self, [op |-> "repository", ok |-> ok, err |-> Answer(ok, NoPullRequestNamed)])
         /\ IF ok
            THEN /\ p' = [p EXCEPT ![self].repository =
                            [ID |-> RepoID(RepoSelf), Owner |-> RepoSelf.owner,
                             Name |-> RepoSelf.name, ParentID |-> RepoID(RepoParent),
                             ParentOwner |-> RepoParent.owner,
                             ParentName |-> RepoParent.name, Status |-> status]]
                 /\ Goto(self, "getRemotePullRequest")
                 /\ UNCHANGED platformVars
            ELSE /\ UNCHANGED <<p, platformVars>>
                 /\ Return(self, ErrTransport)
    /\ UNCHANGED <<engineVars, run, loc, budget>>

\* Found that does not keep the pull request of the answer
Found_NotKept(self, nodes, resetBody) ==
    IF Len(nodes) = 0 THEN p[self]
    ELSE [p[self] EXCEPT
            !.Report = IF resetBody THEN @ ELSE MergeFromString(nodes[1].Body, @)]

\* Found that merges the body of the pull request whatever resetBody is
Found_AlwaysMerged(self, nodes, resetBody) ==
    IF Len(nodes) = 0 THEN p[self]
    ELSE [p[self] EXCEPT
            !.remotePullRequest = nodes[1],
            !.Report = MergeFromString(nodes[1].Body, @)]

\* what getRemotePullRequest leaves in the engine when the query answers nodes
Found(self, nodes, resetBody) ==
    IF Len(nodes) = 0 THEN p[self]
    ELSE [p[self] EXCEPT
            !.remotePullRequest = nodes[1],
            !.Report = IF resetBody THEN @ ELSE MergeFromString(nodes[1].Body, @)]

\* getRemotePullRequest, and the code of CleanAction / CreateAction that
\* follows it up to the next remote call
getRemotePullRequest(self) ==
    /\ pc[self] = "getRemotePullRequest"
    /\ \E ok \in BOOLEAN :
         LET repo == LookupRepo(spec, p[self].repository)
             nodes == Nodes(prs, repo)
             q == Found(self, nodes, run[self].resetDescription)
         IN /\ Issue(self, [op |-> "pullRequests", ok |-> ok, err |-> Answer(ok, NoPullRequestNamed),
                            repo |-> repo, nodes |-> IF ok THEN nodes ELSE <<>>])
            /\ UNCHANGED platformVars
            /\ IF ~ok
               THEN /\ UNCHANGED p
                    /\ Return(self, ErrTransport)
               ELSE /\ p' = [p EXCEPT ![self] = q]
                    /\ IF run[self].kind = "clean"
                       THEN IF q.remotePullRequest.ID = ""
                            THEN Return(self, ErrNil)
                            ELSE IF q.remotePullRequest.ChangedFiles = 0
                            THEN Goto(self, "closePullRequest")
                            ELSE Return(self, ErrNil)
                       ELSE IF Len(q.remotePullRequest.ID) = 0
                            THEN Goto(self, "OpenPullRequest")
                            ELSE Goto(self, "getRepositoryLabels")
    /\ UNCHANGED <<engineVars, run, loc, budget>>

\* OpenPullRequest, and the code of CreateAction up to the next remote call.
\* The platform decides the number of changed files of the new pull request.
OpenPullRequest(self) ==
    /\ pc[self] = "OpenPullRequest"
    /\ LET bodyPR == GeneratePullRequestBody(spec.Description, p[self].Report)
           input == CreatePullRequestInput(spec, p[self].repository, p[self].Title, bodyPR)
       IN IF ~isAhead(p[self].repository)
          THEN /\ UNCHANGED <<p, calls, platformVars>>
               /\ Goto(self, "getRepositoryLabels")
          ELSE \E ok \in BOOLEAN, changedFiles \in {0, 2} :
                 /\ Issue(self, [op |-> "createPullRequest", ok |-> ok,
                                 err |-> Answer(ok, NoPullRequestNamed), input |-> input,
                                 created |-> IF ok THEN PullRequestID(NextNumber(prs))
                                                   ELSE ""])
                 /\ IF ok
                    THEN /\ prs' = Append(prs, NewPullRequest(prs, input, changedFiles))
                         /\ p' = [p EXCEPT ![self].remotePullRequest =
                                     AsPullRequestApi(prs'[Len(prs')])]
                         /\ UNCHANGED <<status, catalog, autoMergeAllowed>>
                         /\ Goto(self, "getRepositoryLabels")
                    ELSE /\ changedFiles = 0
                         /\ UNCHANGED <<p, platformVars>>
                         /\ Return(self, ErrTransport)
    /\ UNCHANGED <<engineVars, run, loc, budget>>

\* getRepositoryLabels whose failure does not end the run
getRepositoryLabels_ErrorIgnored(self) ==
    /\ pc[self] = "getRepositoryLabels"
    /\ \E ok \in BOOLEAN :
         /\ Issue(self, [op |-> "repositoryLabels", ok |-> ok, err |-> Answer(ok, NoPullRequestNamed)])
         /\ UNCHANGED <<p, platformVars>>
         /\ loc' = [loc EXCEPT ![self] =
                      [repositoryLabels |-> IF ok THEN catalog ELSE <<>>,
                       matchingLabels |->
                          MatchingLabels(spec.Labels, IF ok THEN catalog ELSE <<>>),
                       pullRequestLabels |-> <<>>,
                       before |-> NilCursor]]
         /\ Goto(self, "GetPullRequestLabelsInformation")
    /\ UNCHANGED <<engineVars, run, budget>>

\* updatePullRequest, from its start to the label catalog query and the
\* selection of the matching labels
getRepositoryLabels(self) ==
    /\ pc[self] = "getRepositoryLabels"
    /\ \E ok \in BOOLEAN :
         /\ Issue(self, [op |-> "repositoryLabels", ok |-> ok, err |-> Answer(ok, NoPullRequestNamed)])
         /\ UNCHANGED <<p, platformVars>>
         /\ IF ok
            THEN /\ loc' = [loc EXCEPT ![self] =
                              [repositoryLabels |-> catalog,
                               matchingLabels |-> MatchingLabels(spec.Labels, catalog),
                               pullRequestLabels |-> <<>>,
                               before |-> NilCursor]]
                 /\ Goto(self, "GetPullRequestLabelsInformation")
            ELSE /\ UNCHANGED loc
                 /\ Return(self, ErrTransport)
    /\ UNCHANGED <<engineVars, run, budget>>

\* Accumulate that keeps the labels of the last page only
Accumulate_LastPage(pullRequestLabels, edges) == edges

\* GetPullRequestLabelsInformation: the labels of a page join the result
Accumulate(pullRequestLabels, edges) == pullRequestLabels \o edges

\* LoopEnds that leaves the loop after the first page
LoopEnds_FirstPage(page) == TRUE

\* GetPullRequestLabelsInformation: the test that leaves the loop
LoopEnds(page) == ~page.HasPreviousPage

\* GetPullRequestLabelsInformation: one turn of its loop, one page query
GetPullRequestLabelsInformation(self) ==
    /\ pc[self] = "GetPullRequestLabelsInformation"
    /\ \E ok \in BOOLEAN :
         LET repo == LookupRepo(spec, p[self].repository)
             number == p[self].remotePullRequest.Number
             found == ByNumber(prs, repo, number)
             c == [op |-> "labels", ok |-> ok /\ found # {}, err |-> Answer(ok, found),
                   repo |-> repo, number |-> number, before |-> loc[self].before,
                   attached |-> IF found = {} THEN <<>>
                                ELSE prs[CHOOSE i \in found : TRUE].Labels,
                   page |-> IF ok /\ found # {}
                            THEN LabelsPage(prs[CHOOSE i \in found : TRUE].Labels,
                                            loc[self].before)
                            ELSE LabelsPage(<<>>, NilCursor)]
         IN /\ Issue(self, c)
            /\ UNCHANGED <<p, platformVars>>
            /\ IF ~ok
               THEN /\ loc' = [loc EXCEPT ![self].pullRequestLabels = <<>>]
                    /\ Return(self, ErrTransport)
               ELSE IF found = {}
               THEN /\ loc' = [loc EXCEPT ![self].pullRequestLabels = <<>>]
                    /\ Return(self, ErrNotFound)
               ELSE LET pr == prs[CHOOSE i \in found : TRUE]
                        page == LabelsPage(pr.Labels, loc[self].before)
                    IN /\ loc' = [loc EXCEPT
                                    ![self].pullRequestLabels = Accumulate(@, page.Edges),
                                    ![self].before =
                                       IF LoopEnds(page) THEN @ ELSE page.StartCursor]
                       /\ IF LoopEnds(page)
                          THEN Goto(self, "updatePullRequest")
                          ELSE Goto(self, "GetPullRequestLabelsInformation")
    /\ UNCHANGED <<engineVars, run, budget>>

\* Another actor (a person, another automation) attaches a label of the
\* catalog to the pull request of a run, after the label listing of the run
\* and before its update mutation.  It does so once per listing.
FreeLabels(pr) == {catalog[k].ID : k \in 1..Len(catalog)} \ SeqToSet(pr.Labels)

OtherActor(self) ==
    /\ pc[self] = "updatePullRequest"
    /\ \E n \in ByID(prs, p[self].remotePullRequest.ID) :
         /\ prs[n].State = "OPEN"
         /\ SeqToSet(prs[n].Labels) = SeqToSet(LabelIDsOf(loc[self].pullRequestLabels))
         /\ FreeLabels(prs[n]) # {}
         /\ LET l == CHOOSE x \in FreeLabels(prs[n]) :
                        \A y \in FreeLabels(prs[n]) : x <= y
            IN prs' = [prs EXCEPT ![n].Labels = Append(@, l)]
    /\ UNCHANGED <<engineVars, status, catalog, autoMergeAllowed,
                   p, pc, run, err, loc, calls, prev, budget>>

\* AfterUpdate without the test of spec.AutoMerge
AfterUpdate_AlwaysAutoMerge(self) ==
    IF ~isAhead(p[self].repository)
    THEN Return(self, ErrNil)
    ELSE IF p[self].remotePullRequest.ChangedFiles = 0
    THEN Goto(self, "closePullRequest")
    ELSE Goto(self, "isAutoMergedEnabledOnRepository")

\* AfterUpdate without the test of the branch status
AfterUpdate_NoAheadCheck(self) ==
    IF p[self].remotePullRequest.ChangedFiles = 0
    THEN Goto(self, "closePullRequest")
    ELSE IF spec.AutoMerge
    THEN Goto(self, "isAutoMergedEnabledOnRepository")
    ELSE Return(self, ErrNil)

\* AfterUpdate without the test of ChangedFiles
AfterUpdate_NoClose(self) ==
    IF ~isAhead(p[self].repository)
    THEN Return(self, ErrNil)
    ELSE IF spec.AutoMerge
    THEN Goto(self, "isAutoMergedEnabledOnRepository")
    ELSE Return(self, ErrNil)

\* the code of CreateAction between updatePullRequest and the next remote call
AfterUpdate(self) ==
    IF ~isAhead(p[self].repository)
    THEN Return(self, ErrNil)
    ELSE IF p[self].remotePullRequest.ChangedFiles = 0
    THEN Goto(self, "closePullRequest")
    ELSE IF spec.AutoMerge
    THEN Goto(self, "isAutoMergedEnabledOnRepository")
    ELSE Return(self, ErrNil)

\* what the platform makes of an updatePullRequest input
Updated(pr, input) ==
    [pr EXCEPT !.Title = input.Title, !.Body = input.Body,
               !.Labels = IF input.hasLabelIDs THEN Dedup(input.LabelIDs) ELSE @]

\* updatePullRequest, from the merge of the labels to the mutation, and the
\* code of CreateAction that follows it
updatePullRequest(self) ==
    /\ pc[self] = "updatePullRequest"
    /\ \E ok \in BOOLEAN :
         LET bodyPR == GeneratePullRequestBody(spec.Description, p[self].Report)
             labelsID == LabelIDsOf(mergeLabels(loc[self].matchingLabels,
                                                loc[self].pullRequestLabels))
             input == UpdatePullRequestInput(p[self].remotePullRequest.ID,
                                             p[self].Title, bodyPR, spec.Labels, labelsID)
             found == ByID(prs, input.PullRequestID)
         IN /\ Issue(self, [op |-> "updatePullRequest", ok |-> ok /\ found # {},
                            err |-> Answer(ok, found),
                            input |-> input, labelsID |-> labelsID,
                            listed |-> loc[self].pullRequestLabels,
                            attached |-> IF found = {} THEN <<>>
                                         ELSE prs[CHOOSE i \in found : TRUE].Labels])
            /\ UNCHANGED <<p, loc>>
            /\ IF ~ok
               THEN /\ UNCHANGED platformVars
                    /\ Return(self, ErrTransport)
               ELSE IF found = {}
               THEN /\ UNCHANGED platformVars
                    /\ Return(self, ErrNotFound)
               ELSE /\ prs' = [i \in 1..Len(prs) |->
                                 IF i \in found THEN Updated(prs[i], input) ELSE prs[i]]
                    /\ UNCHANGED <<status, catalog, autoMergeAllowed>>
                    /\ AfterUpdate(self)
    /\ UNCHANGED <<engineVars, run, budget>>

\* closePullRequest: the close mutation
closePullRequest(self) ==
    /\ pc[self] = "closePullRequest"
    /\ \E ok \in BOOLEAN :
         LET id == p[self].remotePullRequest.ID
             found == ByID(prs, id)
         IN /\ Issue(self, [op |-> "closePullRequest", ok |-> ok /\ found # {},
                            err |-> Answer(ok, found),
                            PullRequestID |-> id])
            /\ IF ~ok
               THEN /\ UNCHANGED platformVars
                    /\ Return(self, ErrTransport)
               ELSE IF found = {}
               THEN /\ UNCHANGED platformVars
                    /\ Return(self, ErrNotFound)
               ELSE /\ prs' = [i \in 1..Len(prs) |->
                                 IF i \in found THEN [prs[i] EXCEPT !.State = "CLOSED"]
                                 ELSE prs[i]]
                    /\ UNCHANGED <<status, catalog, autoMergeAllowed>>
                    /\ Goto(self, "addComment")
    /\ UNCHANGED <<engineVars, p, run, loc, budget>>

\* addComment after which the run goes on to enable auto-merge
addComment_ThenAutoMerge(self) ==
    /\ pc[self] = "addComment"
    /\ \E ok \in BOOLEAN :
         LET id == p[self].remotePullRequest.ID
         IN /\ Issue(self, [op |-> "addComment", ok |-> ok, err |-> Answer(ok, NoPullRequestNamed),
                            PullRequestID |-> id])
            /\ prs' = [i \in 1..Len(prs) |->
                         IF ok /\ prs[i].ID = id
                         THEN [prs[i] EXCEPT !.Comments = @ + 1] ELSE prs[i]]
            /\ UNCHANGED <<status, catalog, autoMergeAllowed>>
            /\ IF spec.AutoMerge /\ run[self].kind = "create"
               THEN Goto(self, "isAutoMergedEnabledOnRepository")
               ELSE Return(self, ErrNil)
    /\ UNCHANGED <<engineVars, p, run, loc, budget>>

\* addComment whose failure is returned to the caller
addComment_Propagated(self) ==
    /\ pc[self] = "addComment"
    /\ \E ok \in BOOLEAN :
         LET id == p[self].remotePullRequest.ID
         IN /\ Issue(self, [op |-> "addComment", ok |-> ok, err |-> Answer(ok, NoPullRequestNamed),
                            PullRequestID |-> id])
            /\ prs' = [i \in 1..Len(prs) |->
                         IF ok /\ prs[i].ID = id
                         THEN [prs[i] EXCEPT !.Comments = @ + 1] ELSE prs[i]]
            /\ UNCHANGED <<status, catalog, autoMergeAllowed>>
            /\ Return(self, IF ok THEN ErrNil ELSE ErrTransport)
    /\ UNCHANGED <<engineVars, p, run, loc, budget>>

\* closePullRequest: the comment that explains the closure, and the return
addComment(self) ==
    /\ pc[self] = "addComment"
    /\ \E ok \in BOOLEAN :
         LET id == p[self].remotePullRequest.ID
         IN /\ Issue(self, [op |-> "addComment", ok |-> ok, err |-> Answer(ok, NoPullRequestNamed),
                            PullRequestID |-> id])
            /\ prs' = [i \in 1..Len(prs) |->
                         IF ok /\ prs[i].ID = id
                         THEN [prs[i] EXCEPT !.Comments = @ + 1] ELSE prs[i]]
            /\ UNCHANGED <<status, catalog, autoMergeAllowed>>
            /\ Return(self, ErrNil)
    /\ UNCHANGED <<engineVars, p, run, loc, budget>>

\* isAutoMergedEnabledOnRepository whose answer is not tested
isAutoMergedEnabledOnRepository_Untested(self) ==
    /\ pc[self] = "isAutoMergedEnabledOnRepository"
    /\ \E ok \in BOOLEAN :
         LET repo == RepoSelf
         IN /\ Issue(self, [op |-> "autoMergeAllowed", ok |-> ok, err |-> Answer(ok, NoPullRequestNamed),
                            repo |-> repo])
            /\ UNCHANGED platformVars
            /\ IF ~ok
               THEN Return(self, ErrTransport)
               ELSE Goto(self, "EnablePullRequestAutoMerge")
    /\ UNCHANGED <<engineVars, p, run, loc, budget>>

\* EnablePullRequestAutoMerge: isAutoMergedEnabledOnRepository and the test
\* of its answer
isAutoMergedEnabledOnRepository(self) ==
    /\ pc[self] = "isAutoMergedEnabledOnRepository"
    /\ \E ok \in BOOLEAN :
         LET repo == RepoSelf    \* gh.Spec.Owner, gh.Spec.Repository
         IN /\ Issue(self, [op |-> "autoMergeAllowed", ok |-> ok, err |-> Answer(ok, NoPullRequestNamed),
                            repo |-> repo])
            /\ UNCHANGED platformVars
            /\ IF ~ok
               THEN Return(self, ErrTransport)
               ELSE IF ~autoMergeAllowed[repo]
               THEN Return(self, ErrAutomergeNotAllowOnRepository)
               ELSE Goto(self, "EnablePullRequestAutoMerge")
    /\ UNCHANGED <<engineVars, p, run, loc, budget>>

\* the error EnablePullRequestAutoMerge returns when the mutation is answered
\* with err, turned into one error for every failure
EnableError_Generic(answer) == IF answer = ErrNil THEN ErrNil ELSE ErrTransport

\* the error EnablePullRequestAutoMerge returns, and CreateAction after it,
\* when the mutation is answered with err
EnableError(answer) == answer

\* the message CreateAction logs for the error of EnablePullRequestAutoMerge
Diagnostic(e) ==
    IF e = ErrAutomergeNotAllowOnRepository
    THEN "Automerge can't be enabled. Make sure to all it on the repository."
    ELSE IF e = ErrPullRequestIsInCleanStatus
    THEN "Automerge can't be enabled. Make sure to have branch protection rules enabled on the repository."
    ELSE "Error enabling automerge: " \o e

\* the answers of the platform to the enablePullRequestAutoMerge mutation
EnableAnswers == {ErrNil, ErrTransport, ErrPullRequestIsInCleanStatus}

\* EnablePullRequestAutoMerge that closes the pull request when the mutation fails
EnablePullRequestAutoMerge_ClosesOnFailure(self) ==
    /\ pc[self] = "EnablePullRequestAutoMerge"
    /\ \E outcome \in EnableAnswers :
         LET input == EnablePullRequestAutoMergeInput(spec, p[self].Title,
                                                      p[self].remotePullRequest)
             found == ByID(prs, input.PullRequestID)
             e == IF outcome = ErrNil /\ found = {} THEN ErrNotFound ELSE outcome
         IN /\ Issue(self, [op |-> "enablePullRequestAutoMerge", ok |-> e = ErrNil,
                            err |-> e, input |-> input])
            /\ prs' = [i \in 1..Len(prs) |->
                         IF e = ErrNil /\ i \in found
                         THEN [prs[i] EXCEPT !.AutoMerge = [enabled |-> TRUE, input |-> input]]
                         ELSE prs[i]]
            /\ UNCHANGED <<status, catalog, autoMergeAllowed>>
            /\ IF e = ErrNil THEN Return(self, ErrNil)
                             ELSE Goto(self, "closePullRequest")
    /\ UNCHANGED <<engineVars, p, run, loc, budget>>

\* EnablePullRequestAutoMerge: the mutation, and the return of CreateAction
EnablePullRequestAutoMerge(self) ==
    /\ pc[self] = "EnablePullRequestAutoMerge"
    /\ \E outcome \in EnableAnswers :
         LET input == EnablePullRequestAutoMergeInput(spec, p[self].Title,
                                                      p[self].remotePullRequest)
             found == ByID(prs, input.PullRequestID)
             e == IF outcome = ErrNil /\ found = {} THEN ErrNotFound ELSE outcome
         IN /\ Issue(self, [op |-> "enablePullRequestAutoMerge", ok |-> e = ErrNil,
                            err |-> e, input |-> input])
            /\ prs' = [i \in 1..Len(prs) |->
                         IF e = ErrNil /\ i \in found
                         THEN [prs[i] EXCEPT !.AutoMerge = [enabled |-> TRUE, input |-> input]]
                         ELSE prs[i]]
            /\ UNCHANGED <<status, catalog, autoMergeAllowed>>
            /\ Return(self, EnableError(e))
    /\ UNCHANGED <<engineVars, p, run, loc, budget>>

----------------------------------------------------------------------------
(* Initial states *)

NewEngines ==
    /\ p = [self \in Procs |-> NewPullRequest_p]
    /\ pc = [self \in Procs |-> "idle"]
    /\ run = [self \in Procs |-> NoRun]
    /\ err = [self \in Procs |-> "none"]
    /\ loc = [self \in Procs |-> NoLocals]
    /\ calls = [self \in Procs |-> <<>>]
    /\ prev = [self \in Procs |-> NoSummary]

ActionSpecs(autoMerge, labels, mergeMethods, useTitle, parent, titles) ==
    [AutoMerge : autoMerge, Title : titles, Description : {"desc"}, Labels : labels,
     Draft : {FALSE}, MaintainerCannotModify : {FALSE}, MergeMethod : mergeMethods,
     UseTitleForAutoMerge : useTitle, Parent : parent]

\* a pull request that is open when the first run starts
OpenPull(number, repo, changedFiles, labels) ==
    [ID |-> PullRequestID(number), Number |-> number, State |-> "OPEN", Title |-> "old title",
     Body |-> [desc |-> "desc", report |-> {"r0"}], Labels |-> labels,
     ChangedFiles |-> changedFiles, Repo |-> repo, AutoMerge |-> NoAutoMerge,
     Comments |-> 0]

Catalog(n) == [i \in 1..n |-> Label(i)]

DesiredLabels == { <<>>, <<"l2", "l3">> }
AttachedLabels == { <<>>, <<1>> }

Init ==
    /\ spec \in ActionSpecs(BOOLEAN, DesiredLabels, {<<>>}, {FALSE}, {FALSE}, {""})
    /\ constructErr = Validate(spec)
    /\ procs = {1}
    /\ budget = MaxRuns
    /\ prs \in {<<>>} \union
               { <<OpenPull(1, RepoSelf, changedFiles, labels)>> :
                   changedFiles \in {0, 2}, labels \in AttachedLabels }
    /\ status \in {"AHEAD", "BEHIND"}
    /\ catalog = Catalog(NumCatalog)
    \* the repository setting is read only when spec.AutoMerge is set
    /\ autoMergeAllowed \in {[r \in Repos |-> b] :
                                b \in IF spec.AutoMerge THEN BOOLEAN ELSE {TRUE}}
    /\ NewEngines

Next ==
    \E self \in Procs :
        \/ NewAction(self)
        \/ CleanAction(self)
        \/ CreateAction(self)
        \/ queryRepository(self)
        \/ getRemotePullRequest(self)
        \/ OpenPullRequest(self)
        \/ getRepositoryLabels(self)
        \/ GetPullRequestLabelsInformation(self)
        \/ updatePullRequest(self)
        \/ closePullRequest(self)
        \/ addComment(self)
        \/ isAutoMergedEnabledOnRepository(self)
        \/ EnablePullRequestAutoMerge(self)
        \/ OtherActor(self)

Spec == Init /\ [][Next]_vars

\* The label study: one run over pull requests that hold up to MaxAttached
\* labels, so that the label listing takes up to three pages.
Ascending(n) == [i \in 1..n |-> i]

DesiredLabelsStudy ==
    DesiredLabels \union { <<"l1", "zz">>, <<"zz">>, <<"l3", "l3">>, <<"l6", "l1">> }

AttachedLabelsStudy ==
    { Ascending(n) : n \in 0..MaxAttached } \union { <<3, 1>>, <<2>> }

InitLabels ==
    /\ spec \in ActionSpecs({TRUE}, DesiredLabelsStudy, {<<>>}, {FALSE}, {FALSE}, {""})
    /\ constructErr = Validate(spec)
    /\ procs = {1}
    /\ budget = 1
    /\ prs \in {<<>>} \union
               { <<OpenPull(1, RepoSelf, changedFiles, labels)>> :
                   changedFiles \in {0, 2}, labels \in AttachedLabelsStudy }
    /\ status \in {"AHEAD", "BEHIND"}
    /\ catalog \in { Catalog(MaxAttached), <<Label(3), Label(1)>> }
    /\ autoMergeAllowed \in {[r \in Repos |-> b] : b \in BOOLEAN}
    /\ NewEngines

SpecLabels == InitLabels /\ [][Next]_vars

\* The merge-method study: one run for every merge method and title setting.
InitMerge ==
    /\ spec \in ActionSpecs({TRUE}, {<<>>}, MergeMethods, BOOLEAN, {FALSE},
                            {"", "chore: update"})
    /\ constructErr = Validate(spec)
    /\ procs = {1}
    /\ budget = 1
    /\ prs \in {<<>>} \union
               { <<OpenPull(42, RepoSelf, changedFiles, <<>>)>> : changedFiles \in {0, 2} }
    /\ status \in {"AHEAD", "BEHIND"}
    /\ catalog = Catalog(NumCatalog)
    /\ autoMergeAllowed \in {[r \in Repos |-> b] : b \in BOOLEAN}
    /\ NewEngines

SpecMerge == InitMerge /\ [][Next]_vars

\* The fork study: one run of an engine configured for a fork or not, with
\* the open pull request, if any, in the fork or in its parent.
InitFork ==
    /\ spec \in ActionSpecs(BOOLEAN, {<<>>, <<"l2", "l3">>}, {<<>>}, {FALSE}, BOOLEAN, {""})
    /\ constructErr = Validate(spec)
    /\ procs = {1}
    /\ budget = 1
    /\ prs \in {<<>>} \union
               { <<OpenPull(1, repo, changedFiles, <<1>>)>> :
                   repo \in Repos, changedFiles \in {0, 2} }
    /\ status \in {"AHEAD", "BEHIND"}
    /\ catalog = Catalog(NumCatalog)
    /\ autoMergeAllowed \in [Repos -> BOOLEAN]
    /\ NewEngines

SpecFork == InitFork /\ [][Next]_vars

\* The concurrency study.  Two processes, each with its own engine for the
\* same repository and branch pair, run once each without serialisation; no
\* pull request is open at the start and the branch is ahead.  The study
\* also starts from what this race can leave behind, two open pull requests
\* for the branch pair, with one process that runs later on a new engine.
CreatedPull(number, changedFiles) ==
    [OpenPull(number, RepoSelf, changedFiles, <<>>) EXCEPT
        !.Title = "Bump x to 2.0",
        !.Body = GeneratePullRequestBody("desc", {"r1"})]

Duplicates ==
    { <<CreatedPull(1, c1), CreatedPull(2, c2)>> : c1 \in {0, 2}, c2 \in {0, 2} }

InitConcurrent ==
    /\ spec \in ActionSpecs({TRUE}, {<<>>}, {<<>>}, {FALSE}, {FALSE}, {""})
    /\ constructErr = Validate(spec)
    /\ \/ procs = Procs /\ prs = <<>> /\ budget = Cardinality(Procs)
       \/ procs = {1} /\ prs \in Duplicates /\ budget = 1
    /\ status = "AHEAD"
    /\ catalog = Catalog(NumCatalog)
    /\ autoMergeAllowed = [r \in Repos |-> TRUE]
    /\ NewEngines

SpecConcurrent == InitConcurrent /\ [][Next]_vars

----------------------------------------------------------------------------
(* Vocabulary of the properties *)

Finished(self, kind) == pc[self] = "done" /\ run[self].kind = kind

\* the positions in the calls of the run of the calls of kind op
CallsOf(self, op) == {i \in 1..Len(calls[self]) : calls[self][i].op = op}

IssuedOp(self, op) == CallsOf(self, op) # {}

\* the find query of the run was answered with these nodes
FoundNodes(self, nodes) ==
    \E i \in CallsOf(self, "pullRequests") :
        calls[self][i].ok /\ calls[self][i].nodes = nodes

\* the find query of the run was answered with an open pull request without changed file
FoundZeroDiff(self) ==
    \E i \in CallsOf(self, "pullRequests") :
        /\ calls[self][i].ok
        /\ calls[self][i].nodes # <<>>
        /\ calls[self][i].nodes[1].ChangedFiles = 0

\* no remote call of the run before the close mutation failed
NoFailureBeforeClose(self) ==
    \A i \in 1..Len(calls[self]) :
        calls[self][i].op \notin {"closePullRequest", "addComment"} => calls[self][i].ok

----------------------------------------------------------------------------
(* C1: a CreateAction run that resolves a branch status other than AHEAD   *)
(* and finds no open pull request issues no create mutation, leaves no     *)
(* pull request behind and returns no error.                               *)
C1_NoCreateWhenNotAhead ==
    \A self \in Procs :
        ( /\ Finished(self, "create")
          /\ FoundNodes(self, <<>>)
          /\ ~isAhead(p[self].repository)
          /\ err[self] # ErrTransport )
        => /\ err[self] = ErrNil
           /\ ~IssuedOp(self, "createPullRequest")
           /\ OpenPullRequests(prs, LookupRepo(spec, p[self].repository)) = {}

(* C2, as claimed: a run that finds an open pull request with              *)
(* ChangedFiles = 0 issues the close mutation, in CleanAction and in       *)
(* CreateAction alike.                                                     *)
C2_ZeroDiffAlwaysClosed ==
    \A self \in Procs :
        (pc[self] = "done" /\ FoundZeroDiff(self) /\ NoFailureBeforeClose(self))
        => IssuedOp(self, "closePullRequest")

(* C2, amended: a CleanAction run that finds an open pull request with     *)
(* ChangedFiles = 0 issues the close mutation; a CreateAction run that     *)
(* finds one issues the close mutation exactly when the branch status is   *)
(* AHEAD (no earlier remote call of the run failing).                      *)
C2_ZeroDiffClosedWhenAhead ==
    \A self \in Procs :
        (pc[self] = "done" /\ FoundZeroDiff(self) /\ NoFailureBeforeClose(self))
        => /\ run[self].kind = "clean" => IssuedOp(self, "closePullRequest")
           /\ run[self].kind = "create" =>
                 (IssuedOp(self, "closePullRequest") <=> isAhead(p[self].repository))

C2_Witness ==
    \E self \in Procs :
        /\ Finished(self, "create")
        /\ FoundZeroDiff(self)
        /\ NoFailureBeforeClose(self)
        /\ IssuedOp(self, "closePullRequest")

(* C3: in closePullRequest, a close mutation that succeeds makes the run   *)
(* return no error and leaves the pull request closed, whether or not the  *)
(* comment could be posted; a close mutation that fails is the last call   *)
(* of the run, its error is returned and no comment is attempted.          *)
C3_CloseThenComment ==
    \A self \in Procs :
        pc[self] = "done" =>
            \A i \in CallsOf(self, "closePullRequest") :
                LET c == calls[self][i]
                IN /\ c.ok =>
                        /\ err[self] = ErrNil
                        /\ IssuedOp(self, "addComment")
                        /\ \A k \in ByID(prs, c.PullRequestID) : prs[k].State = "CLOSED"
                   /\ ~c.ok =>
                        /\ err[self] \in {ErrTransport, ErrNotFound}
                        /\ i = Len(calls[self])
                        /\ ~IssuedOp(self, "addComment")

C3_Witness ==
    \E self \in Procs :
        /\ pc[self] = "done"
        /\ err[self] = ErrNil
        /\ \E i \in CallsOf(self, "closePullRequest") : calls[self][i].ok
        /\ \E i \in CallsOf(self, "addComment") : ~calls[self][i].ok

(* C4: the enable-auto-merge mutation is issued only after the allowance   *)
(* query answered that the repository allows auto-merge; when the query    *)
(* answers that it does not, the run returns                               *)
(* ErrAutomergeNotAllowOnRepository, when the query fails the run returns  *)
(* its error, and in both cases no enable-auto-merge mutation is issued.   *)
C4_AutoMergeGating ==
    \A self \in Procs :
        /\ \A i \in CallsOf(self, "enablePullRequestAutoMerge") :
              \E j \in CallsOf(self, "autoMergeAllowed") :
                  j < i /\ calls[self][j].ok /\ autoMergeAllowed[calls[self][j].repo]
        /\ pc[self] = "done" =>
              \A j \in CallsOf(self, "autoMergeAllowed") :
                  /\ (calls[self][j].ok /\ ~autoMergeAllowed[calls[self][j].repo]) =>
                        /\ err[self] = ErrAutomergeNotAllowOnRepository
                        /\ ~IssuedOp(self, "enablePullRequestAutoMerge")
                  /\ ~calls[self][j].ok =>
                        /\ err[self] = ErrTransport
                        /\ ~IssuedOp(self, "enablePullRequestAutoMerge")

C4_Witness ==
    \E self \in Procs :
        /\ pc[self] = "done"
        /\ err[self] = ErrAutomergeNotAllowOnRepository
        /\ \E j \in CallsOf(self, "autoMergeAllowed") : calls[self][j].ok
        /\ ~IssuedOp(self, "enablePullRequestAutoMerge")

\* the pull requests of a and b carry the same title, body and labels
SameContent(a, b) ==
    /\ Len(a) = Len(b)
    /\ \A i \in 1..Len(a) :
          /\ a[i].Title = b[i].Title
          /\ a[i].Body = b[i].Body
          /\ a[i].Labels = b[i].Labels

\* the run that just finished and the run before it are successful
\* CreateAction runs with the same arguments
TwiceInSuccession(self) ==
    /\ Finished(self, "create")
    /\ prev[self].run = run[self]
    /\ prev[self].err = ErrNil
    /\ err[self] = ErrNil

Convergent(self) ==
    /\ "createPullRequest" \notin Issued(calls[self])
    /\ "updatePullRequest" \in prev[self].issued
    /\ "updatePullRequest" \in Issued(calls[self])
    /\ SameContent(prev[self].prs, prs)

(* C5, as claimed: of two successive successful CreateAction runs with the *)
(* same arguments, the second issues no create mutation, both issue an     *)
(* update mutation, and the title, body and labels of the pull requests    *)
(* after the second run are those after the first.                         *)
C5_IdempotentAlways ==
    \A self \in Procs : TwiceInSuccession(self) => Convergent(self)

(* C5, for a first run that does not close the pull request: the second   *)
(* run issues no create mutation, both runs issue an update mutation and   *)
(* the title, body and labels are left as the first run left them.         *)
C5_IdempotentUnlessClosed ==
    \A self \in Procs :
        (TwiceInSuccession(self) /\ "closePullRequest" \notin prev[self].issued)
        => Convergent(self)

C5_Witness ==
    \E self \in Procs :
        /\ TwiceInSuccession(self)
        /\ "closePullRequest" \notin prev[self].issued
        /\ "createPullRequest" \in prev[self].issued
        /\ "updatePullRequest" \in Issued(calls[self])

\* the IDs of the catalog labels whose name is one of names
CatalogIDs(names) ==
    {catalog[k].ID : k \in {j \in 1..Len(catalog) : catalog[j].Name \in SeqToSet(names)}}

(* C6: the label IDs computed for an update mutation are the IDs of the    *)
(* catalog labels whose name is a desired name together with the IDs of    *)
(* the labels the run listed as attached to the pull request, and nothing  *)
(* else.                                                                   *)
C6_AdditiveLabelMerge ==
    \A self \in Procs :
        \A i \in CallsOf(self, "updatePullRequest") :
            SeqToSet(calls[self][i].labelsID)
              = CatalogIDs(spec.Labels)
                  \union SeqToSet(LabelIDsOf(calls[self][i].listed))

C6_Witness ==
    \E self \in Procs :
        \E i \in CallsOf(self, "updatePullRequest") :
            /\ spec.Labels = <<"l2", "l3">>
            /\ calls[self][i].listed = <<Label(1)>>
            /\ SeqToSet(calls[self][i].labelsID) = {1, 2, 3}

(* C7: an update mutation carries label IDs exactly when labels are        *)
(* configured; with no label configured it carries none, and the labels of *)
(* the pull request are after the mutation what they were before it.       *)
C7_LabelIDsOnlyWhenConfigured ==
    \A self \in Procs :
        \A i \in CallsOf(self, "updatePullRequest") :
            LET c == calls[self][i]
            IN /\ c.input.hasLabelIDs <=> Len(spec.Labels) # 0
               /\ Len(spec.Labels) = 0 =>
                    /\ c.input.LabelIDs = <<>>
                    /\ c.ok /\ i = Len(calls[self]) =>
                         \A k \in ByID(prs, c.input.PullRequestID) :
                             prs[k].Labels = c.attached

C7_Witness ==
    \E self \in Procs :
        \E i \in CallsOf(self, "updatePullRequest") :
            /\ Len(spec.Labels) = 0
            /\ calls[self][i].ok
            /\ calls[self][i].attached # <<>>
            /\ ~calls[self][i].input.hasLabelIDs

\* the label page queries of the run, in order
IsLabelsCall(c) == c.op = "labels"
LabelCalls(self) == SelectSeq(calls[self], IsLabelsCall)

\* the number of pages the platform serves n labels in
PagesServed(n) == IF n = 0 THEN 1 ELSE (n + PageSize - 1) \div PageSize

\* the labels of the pages of the calls cs, in the order of the calls
RECURSIVE Concatenation(_)
Concatenation(cs) ==
    IF cs = <<>> THEN <<>> ELSE cs[1].page.Edges \o Concatenation(Tail(cs))

\* the labels attached to the pull request that the label query c names,
\* when the query is answered
AttachedTo(c) == c.attached

(* C8: a label listing that ends without error has issued one query per    *)
(* page the platform serves, the first without cursor and every later one  *)
(* with the start cursor of the page just received, no cursor twice, and   *)
(* its result is the concatenation of the pages, holding every attached    *)
(* label exactly once.                                                     *)
C8_PaginationComplete ==
    \A self \in Procs :
        pc[self] = "updatePullRequest" =>
            LET lc == LabelCalls(self)
                result == loc[self].pullRequestLabels
                attached == AttachedTo(lc[1])
            IN /\ Len(lc) = PagesServed(Len(attached))
               /\ lc[1].before = NilCursor
               /\ \A i \in 2..Len(lc) : lc[i].before = lc[i - 1].page.StartCursor
               /\ \A i, j \in 1..Len(lc) : i # j => lc[i].before # lc[j].before
               /\ result = Concatenation(lc)
               /\ Len(result) = Len(attached)
               /\ \A l \in SeqToSet(attached) :
                     Cardinality({k \in 1..Len(result) : result[k] = Label(l)}) = 1

C8_Witness ==
    \E self \in Procs :
        /\ pc[self] = "updatePullRequest"
        /\ Len(LabelCalls(self)) = 3
        /\ Len(loc[self].pullRequestLabels) = MaxAttached

(* C9: the label listing goes on after every page that reports a previous  *)
(* page and ends at the first page that reports none; when a page query    *)
(* fails the run ends with the error, the listing returns no label and no  *)
(* update mutation is issued.                                              *)
C9_LoopTermination ==
    \A self \in Procs :
        LET lc == LabelCalls(self)
        IN /\ \A i \in 1..Len(lc) :
                 (lc[i].ok /\ ~lc[i].page.HasPreviousPage) => i = Len(lc)
           /\ \A i \in 1..(Len(lc) - 1) : lc[i].ok /\ lc[i].page.HasPreviousPage
           /\ (lc # <<>> /\ lc[Len(lc)].ok /\ pc[self] # "GetPullRequestLabelsInformation")
                 => ~lc[Len(lc)].page.HasPreviousPage
           /\ (lc # <<>> /\ lc[Len(lc)].ok /\ lc[Len(lc)].page.HasPreviousPage)
                 => pc[self] = "GetPullRequestLabelsInformation"
           /\ (lc # <<>> /\ ~lc[Len(lc)].ok) =>
                 /\ pc[self] \in {"done", "idle"}
                 /\ err[self] \in {ErrTransport, ErrNotFound}
                 /\ loc[self].pullRequestLabels = <<>>
                 /\ ~IssuedOp(self, "updatePullRequest")

C9_Witness ==
    \E self \in Procs :
        /\ pc[self] = "done"
        /\ Len(LabelCalls(self)) = 2
        /\ LabelCalls(self)[1].ok /\ LabelCalls(self)[1].page.Edges # <<>>
        /\ ~LabelCalls(self)[2].ok
        /\ err[self] = ErrTransport

\* the spellings of the merge methods in the configurations of the study
SquashSpellings == {squash, <<"S", "q", "u", "a", "s", "h">>}
RebaseSpellings == {rebase, REBASE}
MergeSpellings == {<<"m", "e", "r", "g", "e">>}

\* the title of the run: the configured title, else the title of the report
RunTitle(self) == IF spec.Title # "" THEN spec.Title ELSE run[self].report.Title

\* the number of the pull request with the given ID
NumberOf(id) == prs[CHOOSE k \in ByID(prs, id) : TRUE].Number

(* C10: an enable-auto-merge mutation carries the headline                 *)
(* "<title> (#<number>)" for squash, the bare title for rebase and no      *)
(* headline for merge or for no method, when UseTitleForAutoMerge is set;  *)
(* it carries no headline when UseTitleForAutoMerge is not set; it carries *)
(* the merge method, in upper case, exactly when one is configured.        *)
C10_MergeMethodHeadline ==
    \A self \in Procs :
        \A i \in CallsOf(self, "enablePullRequestAutoMerge") :
            LET input == calls[self][i].input
                m == spec.MergeMethod
            IN /\ (spec.UseTitleForAutoMerge /\ m \in SquashSpellings) =>
                     /\ input.hasCommitHeadline
                     /\ ByID(prs, input.PullRequestID) # {} =>
                          input.CommitHeadline =
                             RunTitle(self) \o " (#"
                               \o ToString(NumberOf(input.PullRequestID)) \o ")"
               /\ (spec.UseTitleForAutoMerge /\ m \in RebaseSpellings) =>
                     input.hasCommitHeadline /\ input.CommitHeadline = RunTitle(self)
               /\ (spec.UseTitleForAutoMerge /\ m \in MergeSpellings \union {<<>>}) =>
                     ~input.hasCommitHeadline
               /\ ~spec.UseTitleForAutoMerge => ~input.hasCommitHeadline
               /\ input.hasMergeMethod <=> m # <<>>
               /\ m \in SquashSpellings => input.MergeMethod = SQUASH
               /\ m \in RebaseSpellings => input.MergeMethod = REBASE
               /\ m \in MergeSpellings => input.MergeMethod = MERGE

C10_Witness ==
    \E self \in Procs :
        \E i \in CallsOf(self, "enablePullRequestAutoMerge") :
            /\ spec.UseTitleForAutoMerge
            /\ spec.MergeMethod = squash
            /\ calls[self][i].input.hasCommitHeadline
            /\ calls[self][i].input.CommitHeadline = "Bump x to 2.0 (#42)"
            /\ calls[self][i].input.MergeMethod = SQUASH

----------------------------------------------------------------------------
(* C11: with spec.Parent set, every pull-request lookup and every label    *)
(* listing of a pull request is addressed to the owner and name of the     *)
(* parent, and the create mutation carries the ID of the parent as         *)
(* RepositoryID and the ID of the fork as HeadRepositoryID; with           *)
(* spec.Parent not set the lookups address the repository itself and the   *)
(* create mutation carries its ID and no HeadRepositoryID.  A pull request *)
(* that is created lives in the repository the mutation names.             *)
TargetRepo == IF spec.Parent THEN RepoParent ELSE RepoSelf

----------------------------------------------------------------------------
(* C12: when the find query of a run answers that no pull request is open, *)
(* the record the rest of the run acts on has an empty ID, in every run,   *)
(* the runs of an engine that found or created a pull request in an        *)
(* earlier run included.                                                   *)
FindAnsweredNone(self) ==
    /\ calls[self] # <<>>
    /\ calls[self][Len(calls[self])].op = "pullRequests"
    /\ calls[self][Len(calls[self])].ok
    /\ calls[self][Len(calls[self])].nodes = <<>>

C12_NoCarryOver ==
    \A self \in Procs :
        FindAnsweredNone(self) => p[self].remotePullRequest.ID = ""

----------------------------------------------------------------------------
(* C13: the body of every update mutation is rendered from the merge of    *)
(* the body of the pull request found with the report of the run when an   *)
(* open pull request was found and resetDescription is false, and from the *)
(* report of the run alone when resetDescription is true or when no open   *)
(* pull request was found.                                                 *)
ReportText(self) ==
    LET find == calls[self][CHOOSE i \in CallsOf(self, "pullRequests") : TRUE]
        fragment == ToActionsString(run[self].report)
    IN IF find.nodes # <<>> /\ ~run[self].resetDescription
       THEN MergeFromString(find.nodes[1].Body, fragment)
       ELSE fragment

C13_UpdateBodyReport ==
    \A self \in Procs :
        \A i \in CallsOf(self, "updatePullRequest") :
            calls[self][i].input.Body =
                GeneratePullRequestBody(spec.Description, ReportText(self))

\* an update whose body merges the report of the pull request found (r0)
\* with the report of the run (r1)
C13_Witness ==
    \E self \in Procs :
        /\ ~run[self].resetDescription
        /\ \E i \in CallsOf(self, "updatePullRequest") :
              /\ calls[self][i].ok
              /\ calls[self][i].input.Body.report = {"r0", "r1"}

----------------------------------------------------------------------------
(* C14: a run of CleanAction never issues a create, update or              *)
(* enable-auto-merge mutation; when its find query answers no open pull    *)
(* request it returns success without any mutation; when the query answers *)
(* a pull request with ChangedFiles > 0 it returns success without any     *)
(* mutation and leaves the pull requests as they were; it issues the close *)
(* mutation only when the query answers a pull request with                *)
(* ChangedFiles = 0.                                                       *)
Mutations ==
    {"createPullRequest", "updatePullRequest", "closePullRequest", "addComment",
     "enablePullRequestAutoMerge"}

NoMutation(self) ==
    \A i \in 1..Len(calls[self]) : calls[self][i].op \notin Mutations

FoundWithDiff(self) ==
    \E i \in CallsOf(self, "pullRequests") :
        /\ calls[self][i].ok
        /\ calls[self][i].nodes # <<>>
        /\ calls[self][i].nodes[1].ChangedFiles > 0

C14_CleanActionFrame ==
    \A self \in Procs :
        run[self].kind = "clean" =>
            /\ ~IssuedOp(self, "createPullRequest")
            /\ ~IssuedOp(self, "updatePullRequest")
            /\ ~IssuedOp(self, "enablePullRequestAutoMerge")
            /\ FoundNodes(self, <<>>) =>
                  NoMutation(self) /\ err[self] = ErrNil
            /\ FoundWithDiff(self) =>
                  NoMutation(self) /\ err[self] = ErrNil /\ prs = prev[self].prs
            /\ IssuedOp(self, "closePullRequest") => FoundZeroDiff(self)

----------------------------------------------------------------------------
(* C15: when the update mutation of a CreateAction run has succeeded and   *)
(* the branch status is not AHEAD, the run has returned success and the    *)
(* update is its last remote call: it issues no close mutation, no         *)
(* enable-auto-merge mutation and no allowance query, whatever             *)
(* ChangedFiles and spec.AutoMerge are.                                    *)
Updated_NotAhead(self) ==
    /\ run[self].kind = "create"
    /\ status # "AHEAD"
    /\ \E i \in CallsOf(self, "updatePullRequest") : calls[self][i].ok

C15_NotAheadEndsAfterUpdate ==
    \A self \in Procs :
        Updated_NotAhead(self) =>
            /\ pc[self] \in {"done", "idle"}
            /\ err[self] = ErrNil
            /\ calls[self][Len(calls[self])].op = "updatePullRequest"
            /\ ~IssuedOp(self, "closePullRequest")
            /\ ~IssuedOp(self, "autoMergeAllowed")
            /\ ~IssuedOp(self, "enablePullRequestAutoMerge")

\* the run has updated a pull request without changed file, with auto-merge
\* configured, while the branch is not ahead
C15_Witness ==
    \E self \in Procs :
        /\ Updated_NotAhead(self)
        /\ spec.AutoMerge
        /\ FoundZeroDiff(self)
        /\ pc[self] = "done"

----------------------------------------------------------------------------
(* C16: in every run, a remote call that fails, other than the comment of  *)
(* a closure, is the last remote call of the run, and the run has returned *)
(* the error of that call.                                                 *)
C16_FirstFailureEndsRun ==
    \A self \in Procs :
        \A i \in 1..Len(calls[self]) :
            (calls[self][i].err # ErrNil /\ calls[self][i].op # "addComment") =>
                /\ i = Len(calls[self])
                /\ pc[self] \in {"done", "idle"}
                /\ err[self] = calls[self][i].err

\* a CreateAction run whose update mutation failed after three calls that
\* succeeded
C16_Witness ==
    \E self \in Procs :
        /\ run[self].kind = "create"
        /\ Len(calls[self]) > 3
        /\ calls[self][Len(calls[self])].op = "updatePullRequest"
        /\ calls[self][Len(calls[self])].err = ErrTransport
        /\ err[self] = ErrTransport

----------------------------------------------------------------------------
(* C17: when EnablePullRequestAutoMerge fails in a CreateAction run (the   *)
(* repository does not allow auto-merge, the pull request is in clean      *)
(* status, or any other failure of the allowance query or of the           *)
(* mutation), the run returns the error and the failing step is its last   *)
(* remote call: there is no close, no comment and no second update, and    *)
(* the pull request is open with the title, body and labels the update of  *)
(* the run wrote, its auto-merge setting as it was when the run started.   *)
EnableFailed(self) ==
    /\ run[self].kind = "create"
    /\ calls[self] # <<>>
    /\ LET c == calls[self][Len(calls[self])]
       IN \/ c.op = "enablePullRequestAutoMerge" /\ c.err # ErrNil
          \/ c.op = "autoMergeAllowed" /\ (c.err # ErrNil \/ ~autoMergeAllowed[c.repo])

EnableFailure(self) ==
    LET c == calls[self][Len(calls[self])]
    IN IF c.err # ErrNil THEN c.err ELSE ErrAutomergeNotAllowOnRepository

WrittenBy(input, attached) ==
    [Title |-> input.Title, Body |-> input.Body,
     Labels |-> IF input.hasLabelIDs THEN Dedup(input.LabelIDs) ELSE attached]

C17_NoCompensation ==
    \A self \in Procs :
        EnableFailed(self) =>
            /\ pc[self] \in {"done", "idle"}
            /\ err[self] = EnableFailure(self)
            /\ ~IssuedOp(self, "closePullRequest")
            /\ ~IssuedOp(self, "addComment")
            /\ Cardinality(CallsOf(self, "updatePullRequest")) = 1
            /\ \A i \in CallsOf(self, "updatePullRequest") :
                  /\ calls[self][i].ok
                  /\ \A k \in i + 1..Len(calls[self]) :
                        calls[self][k].op \in {"autoMergeAllowed", "enablePullRequestAutoMerge"}
                  /\ \E n \in ByID(prs, calls[self][i].input.PullRequestID) :
                        /\ prs[n].State = "OPEN"
                        /\ prs[n].AutoMerge.enabled =>
                              /\ n <= Len(prev[self].prs)
                              /\ prs[n].AutoMerge = prev[self].prs[n].AutoMerge
                        /\ [Title |-> prs[n].Title, Body |-> prs[n].Body,
                            Labels |-> prs[n].Labels]
                             = WrittenBy(calls[self][i].input, calls[self][i].attached)

\* the run has written labels to a pull request and then learnt that the
\* repository does not allow auto-merge
C17_Witness ==
    \E self \in Procs :
        /\ EnableFailed(self)
        /\ err[self] = ErrAutomergeNotAllowOnRepository
        /\ \E i \in CallsOf(self, "updatePullRequest") :
              calls[self][i].input.hasLabelIDs /\ calls[self][i].input.LabelIDs # <<>>

----------------------------------------------------------------------------
(* C18: when the platform rejects the enable-auto-merge mutation because   *)
(* the pull request is in clean status, the run returns                    *)
(* ErrPullRequestIsInCleanStatus, which CreateAction tells apart from      *)
(* ErrAutomergeNotAllowOnRepository and from every other failure; and      *)
(* whatever error the mutation is answered with, the run returns it.       *)
C18_CleanStatusPropagated ==
    \A self \in Procs :
        \A i \in CallsOf(self, "enablePullRequestAutoMerge") :
            /\ calls[self][i].err # ErrNil => err[self] = calls[self][i].err
            /\ calls[self][i].err = ErrPullRequestIsInCleanStatus =>
                  /\ err[self] = ErrPullRequestIsInCleanStatus
                  /\ \A e \in {ErrAutomergeNotAllowOnRepository, ErrTransport, ErrNotFound} :
                        Diagnostic(err[self]) # Diagnostic(e)

\* a run whose enable mutation was rejected for clean status
C18_Witness ==
    \E self \in Procs :
        /\ pc[self] = "done"
        /\ err[self] = ErrPullRequestIsInCleanStatus
        /\ \E i \in CallsOf(self, "enablePullRequestAutoMerge") :
              calls[self][i].err = ErrPullRequestIsInCleanStatus

----------------------------------------------------------------------------
(* C19: NewAction returns the validation error exactly when the merge      *)
(* method of the configuration is neither empty nor squash, merge or       *)
(* rebase compared without regard to case, and no remote call is ever      *)
(* issued for such a configuration; the enable-auto-merge mutation of an   *)
(* engine that was constructed without error carries no merge method (the  *)
(* configured one being empty) or one of SQUASH, MERGE, REBASE.            *)
AcceptedMergeMethod(method) ==
    \/ method = <<>>
    \/ EqualFold(method, squash)
    \/ EqualFold(method, MERGE)
    \/ EqualFold(method, rebase)

C19_MergeMethodValidation ==
    /\ constructErr = (IF AcceptedMergeMethod(spec.MergeMethod)
                       THEN ErrNil ELSE ErrBadMergeMethod)
    /\ constructErr # ErrNil => \A self \in Procs : calls[self] = <<>>
    /\ constructErr = ErrNil =>
          \A self \in Procs :
              \A i \in CallsOf(self, "enablePullRequestAutoMerge") :
                  LET input == calls[self][i].input
                  IN /\ input.hasMergeMethod = (spec.MergeMethod # <<>>)
                     /\ input.hasMergeMethod =>
                           input.MergeMethod \in {SQUASH, MERGE, REBASE}

\* an engine constructed for the method "Squash" has issued the enable
\* mutation with SQUASH
C19_Witness ==
    \E self \in Procs :
        /\ spec.MergeMethod \notin {SQUASH, MERGE, REBASE, <<>>}
        /\ constructErr = ErrNil
        /\ \E i \in CallsOf(self, "enablePullRequestAutoMerge") :
              calls[self][i].ok /\ calls[self][i].input.MergeMethod = SQUASH

----------------------------------------------------------------------------
(* C20: two CreateAction runs of two processes for the same repository and *)
(* branch pair are not serialised: both can read that no pull request is   *)
(* open before either creates one, and then both create one (the witness). *)
(* Every find query is answered with the most recent open pull request of  *)
(* the repository it addresses; a run that found one issues no create      *)
(* mutation, addresses every mutation to the pull request it found and     *)
(* leaves every other pull request as it is, and closes the one it found   *)
(* only when that one has no changed file: no run closes a duplicate.      *)
MostRecentOpen(pulls, repo) ==
    IF \A i \in 1..Len(pulls) : pulls[i].Repo # repo \/ pulls[i].State # "OPEN"
    THEN <<>>
    ELSE LET n == CHOOSE i \in 1..Len(pulls) :
                    /\ pulls[i].Repo = repo /\ pulls[i].State = "OPEN"
                    /\ \A j \in 1..Len(pulls) :
                          (pulls[j].Repo = repo /\ pulls[j].State = "OPEN")
                             => pulls[j].Number <= pulls[i].Number
         IN <<AsPullRequestApi(pulls[n])>>

\* the pull request a mutation names
TargetOf(c) ==
    IF c.op \in {"updatePullRequest", "enablePullRequestAutoMerge"}
    THEN c.input.PullRequestID
    ELSE c.PullRequestID

\* the answer to the find query among the calls cs
FindOf(cs) ==
    LET at == {i \in 1..Len(cs) : cs[i].op = "pullRequests" /\ cs[i].ok}
    IN IF at = {} THEN <<>> ELSE cs[CHOOSE i \in at : TRUE].nodes

ActsOnMostRecent(self) ==
    LET cs == calls'[self]
        c == cs[Len(cs)]
    IN (cs # calls[self] /\ cs # <<>>) =>
         /\ (c.op = "pullRequests" /\ c.ok) => c.nodes = MostRecentOpen(prs, c.repo)
         /\ FindOf(cs) # <<>> =>
               /\ c.op # "createPullRequest"
               /\ c.op \in Mutations =>
                     /\ TargetOf(c) = FindOf(cs)[1].ID
                     /\ Len(prs') = Len(prs)
                     /\ \A n \in 1..Len(prs) :
                           prs[n].ID # TargetOf(c) => prs'[n] = prs[n]
               /\ c.op = "closePullRequest" => FindOf(cs)[1].ChangedFiles = 0

C20_UnserialisedRuns == [][\A self \in Procs : ActsOnMostRecent(self)]_vars

\* both processes read that no pull request is open, both created one, and
\* the two pull requests are open for the same repository
C20_Witness ==
    /\ \A self \in Procs :
          /\ run[self].kind = "create"
          /\ FoundNodes(self, <<>>)
          /\ \E i \in CallsOf(self, "createPullRequest") : calls[self][i].ok
    /\ Len(prs) = 2
    /\ \A n \in 1..2 : prs[n].State = "OPEN" /\ prs[n].Repo = RepoSelf

----------------------------------------------------------------------------
(* C21: a CreateAction run that has a pull request after its find and      *)
(* create steps (found or just created) and in which no remote call        *)
(* before the update mutation failed issues exactly one update mutation,   *)
(* for that pull request, after the find and create calls and before any   *)
(* close, comment, allowance or enable call, whatever the branch status.   *)
BeforeUpdate == {"repository", "pullRequests", "createPullRequest", "repositoryLabels", "labels"}
AfterTheUpdate ==
    {"closePullRequest", "addComment", "autoMergeAllowed", "enablePullRequestAutoMerge"}

\* the ID of the pull request the run found or created, "" when it did neither
PullRequestOfRun(self) ==
    IF FindOf(calls[self]) # <<>> THEN FindOf(calls[self])[1].ID
    ELSE IF \E i \in CallsOf(self, "createPullRequest") : calls[self][i].ok
    THEN calls[self][CHOOSE i \in CallsOf(self, "createPullRequest") : TRUE].created
    ELSE ""

ReadyForUpdate(self) ==
    /\ run[self].kind = "create"
    /\ pc[self] \notin {"queryRepository", "getRemotePullRequest", "OpenPullRequest",
                        "getRepositoryLabels", "GetPullRequestLabelsInformation",
                        "updatePullRequest"}
    /\ PullRequestOfRun(self) # ""
    /\ \A i \in 1..Len(calls[self]) :
          calls[self][i].op \in BeforeUpdate => calls[self][i].err = ErrNil

C21_ExactlyOneUpdate ==
    \A self \in Procs :
        /\ Cardinality(CallsOf(self, "updatePullRequest")) <= 1
        /\ \A i \in CallsOf(self, "updatePullRequest") :
              \A j \in 1..Len(calls[self]) :
                  /\ calls[self][j].op \in BeforeUpdate => j < i
                  /\ calls[self][j].op \in AfterTheUpdate => j > i
        /\ ReadyForUpdate(self) =>
              \E i \in CallsOf(self, "updatePullRequest") :
                  calls[self][i].input.PullRequestID = PullRequestOfRun(self)

\* a run on a branch that is not ahead has found a pull request and updated it
C21_Witness ==
    \E self \in Procs :
        /\ ReadyForUpdate(self)
        /\ status # "AHEAD"
        /\ pc[self] = "done"
        /\ \E i \in CallsOf(self, "updatePullRequest") :
              calls[self][i].ok /\ calls[self][i].input.PullRequestID = "PR_1"

----------------------------------------------------------------------------
(* C22: when labels are configured, every label that is attached to the    *)
(* pull request when the update mutation of a run reaches the platform is  *)
(* attached to it after the mutation, whoever attached it and whenever.    *)
StillAttached(self, labels) ==
    \A i \in CallsOf(self, "updatePullRequest") :
        (calls[self][i].ok /\ i = Len(calls[self])) =>
            \A n \in ByID(prs, calls[self][i].input.PullRequestID) :
                SeqToSet(labels[i]) \subseteq SeqToSet(prs[n].Labels)

C22_LabelsNeverRemoved ==
    \A self \in Procs :
        (run[self].kind = "create" /\ Len(spec.Labels) # 0) =>
            StillAttached(self, [i \in 1..Len(calls[self]) |->
                                   IF calls[self][i].op = "updatePullRequest"
                                   THEN calls[self][i].attached ELSE <<>>])

\* the same for the labels the run listed before the mutation
C22_ListedLabelsKept ==
    \A self \in Procs :
        (run[self].kind = "create" /\ Len(spec.Labels) # 0) =>
            StillAttached(self, [i \in 1..Len(calls[self]) |->
                                   IF calls[self][i].op = "updatePullRequest"
                                   THEN LabelIDsOf(calls[self][i].listed) ELSE <<>>])

----------------------------------------------------------------------------
(* C23: every update mutation, label query of a pull request, close        *)
(* mutation and enable-auto-merge mutation names a pull request that       *)
(* exists: none carries the empty ID or the number 0 of a record that      *)
(* holds no pull request.                                                  *)
NamesPullRequest(c) ==
    IF c.op = "labels"
    THEN c.number # 0 /\ ByNumber(prs, c.repo, c.number) # {}
    ELSE TargetOf(c) # "" /\ ByID(prs, TargetOf(c)) # {}

C23_TargetExists ==
    \A self \in Procs :
        \A i \in 1..Len(calls[self]) :
            calls[self][i].op \in {"updatePullRequest", "labels", "closePullRequest",
                                   "enablePullRequestAutoMerge"}
                => NamesPullRequest(calls[self][i])

----------------------------------------------------------------------------
(* C24: a CreateAction run issues at most one create, one update, one      *)
(* close and one enable-auto-merge mutation, and never both a close and an *)
(* enable-auto-merge mutation; the pull request an enable-auto-merge       *)
(* mutation names has changed files.                                       *)
AtMostOnce(self, op) == Cardinality(CallsOf(self, op)) <= 1

C24_CloseExcludesEnable ==
    \A self \in Procs :
        run[self].kind = "create" =>
            /\ AtMostOnce(self, "createPullRequest")
            /\ AtMostOnce(self, "updatePullRequest")
            /\ AtMostOnce(self, "closePullRequest")
            /\ AtMostOnce(self, "enablePullRequestAutoMerge")
            /\ ~(IssuedOp(self, "closePullRequest")
                   /\ IssuedOp(self, "enablePullRequestAutoMerge"))
            /\ \A i \in CallsOf(self, "enablePullRequestAutoMerge") :
                  \A n \in ByID(prs, TargetOf(calls[self][i])) :
                      prs[n].ChangedFiles > 0

\* a run that created a pull request without changed file and closed it,
\* with auto-merge configured and allowed
C24_Witness ==
    \E self \in Procs :
        /\ run[self].kind = "create"
        /\ spec.AutoMerge /\ autoMergeAllowed[RepoSelf]
        /\ pc[self] = "done"
        /\ \E i \in CallsOf(self, "createPullRequest") : calls[self][i].ok
        /\ \E i \in CallsOf(self, "closePullRequest") : calls[self][i].ok

----------------------------------------------------------------------------
(* C25: with spec.AutoMerge false no run, of CreateAction or of            *)
(* CleanAction, issues the allowance query or the enable-auto-merge        *)
(* mutation, and a CleanAction run never does; an enable-auto-merge        *)
(* mutation is issued only in a CreateAction run, with spec.AutoMerge      *)
(* true, on a branch that is ahead, after an update mutation of the run    *)
(* that succeeded, for the pull request of that update, which exists and   *)
(* has changed files.                                                      *)
C25_AutoMergeOnlyWhenConfigured ==
    \A self \in Procs :
        /\ (~spec.AutoMerge \/ run[self].kind = "clean") =>
              /\ ~IssuedOp(self, "autoMergeAllowed")
              /\ ~IssuedOp(self, "enablePullRequestAutoMerge")
        /\ \A i \in CallsOf(self, "enablePullRequestAutoMerge") :
              /\ spec.AutoMerge
              /\ run[self].kind = "create"
              /\ status = "AHEAD"
              /\ \E j \in CallsOf(self, "updatePullRequest") :
                    /\ j < i
                    /\ calls[self][j].ok
                    /\ calls[self][j].input.PullRequestID = TargetOf(calls[self][i])
              /\ \E n \in ByID(prs, TargetOf(calls[self][i])) : prs[n].ChangedFiles > 0

\* with auto-merge configured, a run has created a pull request with changed
\* files, updated it and enabled auto-merge on it
C25_Witness ==
    \E self \in Procs :
        /\ spec.AutoMerge
        /\ \E i \in CallsOf(self, "createPullRequest") : calls[self][i].ok
        /\ \E i \in CallsOf(self, "enablePullRequestAutoMerge") :
              /\ calls[self][i].ok
              /\ \E n \in ByID(prs, TargetOf(calls[self][i])) : prs[n].AutoMerge.enabled

----------------------------------------------------------------------------
(* C26: the allowance query of a run addresses the repository that hosts   *)
(* the pull request, which is the repository the pull-request lookup and   *)
(* the label listing of the run address: the parent when spec.Parent is    *)
(* set, the repository itself otherwise.                                   *)
C26_AllowanceOfHost ==
    \A self \in Procs :
        \A i \in CallsOf(self, "autoMergeAllowed") :
            /\ calls[self][i].repo = TargetRepo
            /\ \A j \in CallsOf(self, "pullRequests") \union CallsOf(self, "labels") :
                  calls[self][i].repo = calls[self][j].repo
====
